---- MODULE Spec2Model ----
(***************************************************************************)
(* Contact book (src/contact_book.py): the ContactBook store (an ordered   *)
(* mapping name -> details kept in memory and in a JSON backing file) and  *)
(* the menu loop of main() that drives it.                                 *)
(*                                                                         *)
(* Strings are sequences of one-character strings, so that lower(),        *)
(* strip(), replace(), isdigit() and the substring test `in` are computed  *)
(* character by character.  The in-memory dict is a sequence of            *)
(* [key, details] entries in insertion order with pairwise different keys. *)
(***************************************************************************)
EXTENDS Integers, Sequences, FiniteSets, TLC

VARIABLES
    contacts,   \* self.contacts
    file,       \* the backing file (self.filename)
    pc,         \* main(): "awaiting_choice", "stopped", or "crashed"
    lastCall,   \* the method main() called last, with its arguments
    ret,        \* what that call returned: "True", "False", "None", "list", "raised"
    results,    \* the list search_contact returned
    out,        \* the lines printed since the menu was last shown
    saves,      \* save_contacts in the last call: "none", "ok", "failed"
    typed       \* the strings the user of this run types

vars == <<contacts, file, pc, lastCall, ret, results, out, saves, typed>>

(***************************************************************************)
(* Bounds and program constants                                            *)
(***************************************************************************)
\* datetime.now() reads one of the seconds 0..MaxTime
MaxTime == 1

\* validate_phone: "return digits >= 10"
MinDigits == 10

\* the phone strings given to validate_phone on its own are made of at most
\* MaxBlocks blocks of characters
MaxBlocks == 4

(***************************************************************************)
(* Strings                                                                 *)
(***************************************************************************)
UpperLetters == <<"A","B","C","D","E","F","G","H","I","J","K","L","M",
                  "N","O","P","Q","R","S","T","U","V","W","X","Y","Z">>
LowerLetters == <<"a","b","c","d","e","f","g","h","i","j","k","l","m",
                  "n","o","p","q","r","s","t","u","v","w","x","y","z">>
Digits == <<"0","1","2","3","4","5","6","7","8","9">>

\* str.lower() on one character: an upper-case letter becomes the lower-case
\* letter at the same place of the alphabet, any other character stays
LowerOf ==
    [c \in {UpperLetters[i] : i \in 1..Len(UpperLetters)} |->
        LowerLetters[CHOOSE i \in 1..Len(UpperLetters) : UpperLetters[i] = c]]

LowerChar(c) == IF c \in DOMAIN LowerOf THEN LowerOf[c] ELSE c

\* str.lower()
lower(s) == [i \in 1..Len(s) |-> LowerChar(s[i])]

\* str.isdigit() on one character
DigitSet == {Digits[i] : i \in 1..Len(Digits)}

isdigit(c) == c \in DigitSet

\* str.replace(ch, "") for a one-character ch
replace(s, ch) == SelectSeq(s, LAMBDA c : c # ch)

\* str.strip(): drop the leading and the trailing blanks
RECURSIVE lstrip(_)
lstrip(s) == IF s # <<>> /\ Head(s) = " " THEN lstrip(Tail(s)) ELSE s

RECURSIVE rstrip(_)
rstrip(s) ==
    IF s # <<>> /\ s[Len(s)] = " " THEN rstrip(SubSeq(s, 1, Len(s) - 1)) ELSE s

strip(s) == rstrip(lstrip(s))

\* the Python test "q in s" on strings
IsIn(q, s) ==
    \E i \in 0..(Len(s) - Len(q)) : SubSeq(s, i + 1, i + Len(q)) = q

\* Python's None, a value that is no string
None == <<"None">>

\* truth value of an optional string argument ("if phone_number:")
Truthy(x) == x # None /\ x # <<>>

\* "x or None" in main()
OrNone(x) == IF x # <<>> THEN x ELSE None

(***************************************************************************)
(* validate_phone                                                          *)
(***************************************************************************)
RECURSIVE CountDigits(_)
CountDigits(s) ==
    IF s = <<>> THEN 0
    ELSE (IF isdigit(Head(s)) THEN 1 ELSE 0) + CountDigits(Tail(s))

\* validate_phone counting every character that is left, digit or not
validate_phone_counting_all(phone_number) ==
    LET clean_phone == replace(replace(replace(replace(phone_number, "-"), " "), "("), ")")
    IN  Len(clean_phone) >= MinDigits

validate_phone(phone_number) ==
    LET clean_phone == replace(replace(replace(replace(phone_number, "-"), " "), "("), ")")
        digits == CountDigits(clean_phone)
    IN  digits >= MinDigits

(***************************************************************************)
(* datetime.now().strftime("%Y-%m-%d %H:%M:%S") for the clock reading t,   *)
(* counted in seconds from 2024-01-01 00:00:00, within the first hour.     *)
(***************************************************************************)
TwoDigits(n) == <<Digits[(n \div 10) + 1], Digits[(n % 10) + 1]>>

strftime(t) ==
    <<"2","0","2","4","-","0","1","-","0","1"," ","0","0",":">>
        \o TwoDigits((t \div 60) % 60) \o <<":">> \o TwoDigits(t % 60)

(***************************************************************************)
(* The in-memory dict and the JSON text of the backing file                *)
(***************************************************************************)
FieldOrder == <<"phone", "email", "address", "date_added">>

\* details.get(field, default)
Get(details, field, default) ==
    IF field \in DOMAIN details THEN details[field] ELSE default

\* details[field] = value
Put(details, field, value) ==
    [f \in (DOMAIN details) \cup {field} |->
        IF f = field THEN value ELSE details[f]]

Keys(cs) == [i \in 1..Len(cs) |-> cs[i].key]

\* position of an exact key in the dict, 0 when it is not a key
IndexOf(cs, key) ==
    IF \E i \in 1..Len(cs) : cs[i].key = key
    THEN CHOOSE i \in 1..Len(cs) : cs[i].key = key
    ELSE 0

\* cs[key] = details: replace in place, or insert at the end
SetItem(cs, key, details) ==
    IF IndexOf(cs, key) # 0
    THEN [cs EXCEPT ![IndexOf(cs, key)].details = details]
    ELSE Append(cs, [key |-> key, details |-> details])

\* del cs[key]
DelItem(cs, key) ==
    SelectSeq(cs, LAMBDA e : e.key # key)

\* json.dump leaving out the fields whose value is the empty string
DumpDetailsWithoutEmpty(details) ==
    LET present == SelectSeq(<<"phone", "email", "address", "date_added">>,
                             LAMBDA f : f \in DOMAIN details /\ details[f] # <<>>)
    IN  [j \in 1..Len(present) |-> <<present[j], details[present[j]]>>]

\* json.dump: the members of the object in dict order, each value an object
\* of its fields
DumpDetails(details) ==
    LET present == SelectSeq(FieldOrder, LAMBDA f : f \in DOMAIN details)
    IN  [j \in 1..Len(present) |-> <<present[j], details[present[j]]>>]

json_dump(cs) == [i \in 1..Len(cs) |-> <<cs[i].key, DumpDetails(cs[i].details)>>]

\* json.load: members are read left to right into a dict, a repeated name
\* overwrites the value of its first occurrence
RECURSIVE LoadDetails(_)
LoadDetails(members) ==
    IF members = <<>> THEN <<>>
    ELSE LET n == Len(members)
         IN  Put(LoadDetails(SubSeq(members, 1, n - 1)),
                 members[n][1], members[n][2])

RECURSIVE json_load(_)
json_load(members) ==
    IF members = <<>> THEN <<>>
    ELSE LET n == Len(members)
         IN  SetItem(json_load(SubSeq(members, 1, n - 1)),
                     members[n][1], LoadDetails(members[n][2]))

\* the backing file: absent, present with bytes that read() cannot decode,
\* present with text json.load rejects, or present with the text of a JSON
\* object
NoFile ==
    [exists |-> FALSE, decodes |-> TRUE, parses |-> FALSE, text |-> <<>>]
UndecodableFile ==
    [exists |-> TRUE, decodes |-> FALSE, parses |-> FALSE, text |-> <<>>]
InvalidFile ==
    [exists |-> TRUE, decodes |-> TRUE, parses |-> FALSE, text |-> <<>>]
JsonFile(members) ==
    [exists |-> TRUE, decodes |-> TRUE, parses |-> TRUE, text |-> members]

(***************************************************************************)
(* ContactBook: the methods as functions of the dict they act on           *)
(***************************************************************************)
\* load_contacts
load_contacts(f) ==
    IF f.exists
    THEN IF f.parses THEN json_load(f.text) ELSE <<>>
    ELSE <<>>

\* load_contacts catches json.JSONDecodeError only: the UnicodeDecodeError of
\* f.read() leaves load_contacts, __init__ and main()
load_raises(f) == f.exists /\ ~f.decodes

\* what load_contacts prints
load_notice(f) ==
    IF f.exists /\ ~f.parses
    THEN << <<"Error reading contacts file. Starting with empty contact list.", <<>> >> >>
    ELSE <<>>

\* save_contacts that leaves the file as it was
save_contacts_skipped(cs) == file

\* save_contacts: the file that a completed write leaves behind
save_contacts(cs) == JsonFile(json_dump(cs))

\* the test for an existing name without .lower()
name_exists_exact(cs, name) ==
    \E i \in 1..Len(cs) : cs[i].key = name

\* "name.lower() in [c.lower() for c in self.contacts]"
name_exists(cs, name) ==
    \E i \in 1..Len(cs) : lower(cs[i].key) = lower(name)

\* the lookup loop comparing the keys without .lower()
contact_key_exact(cs, name) ==
    IF \E i \in 1..Len(cs) : cs[i].key = name THEN name ELSE None

\* the lookup loop of edit_contact, delete_contact and display_contact:
\* the first key, in dict order, whose lowercase equals the name's
contact_key(cs, name) ==
    LET hits == {i \in 1..Len(cs) : lower(cs[i].key) = lower(name)}
    IN  IF hits = {} THEN None
        ELSE cs[CHOOSE i \in hits : \A j \in hits : i <= j].key

\* cs[key] for a key of the dict
Details(cs, key) == cs[IndexOf(cs, key)].details

\* add_contact without the call of validate_phone
add_contact_unvalidated(cs, name, phone_number, email, address, t) ==
    IF name_exists(cs, name)
    THEN [ok |-> FALSE, contacts |-> cs,
          msg |-> <<"Contact already exists!", name>>]
    ELSE [ok |-> TRUE,
          contacts |-> SetItem(cs, name,
                          [phone |-> phone_number, email |-> email,
                           address |-> address, date_added |-> strftime(t)]),
          msg |-> <<"Contact added successfully!", name>>]

\* add_contact, up to the call of save_contacts
add_contact(cs, name, phone_number, email, address, t) ==
    IF name_exists(cs, name)
    THEN [ok |-> FALSE, contacts |-> cs,
          msg |-> <<"Contact already exists!", name>>]
    ELSE IF ~validate_phone(phone_number)
    THEN [ok |-> FALSE, contacts |-> cs,
          msg |-> <<"Invalid phone number format!", <<>> >>]
    ELSE [ok |-> TRUE,
          contacts |-> SetItem(cs, name,
                          [phone |-> phone_number, email |-> email,
                           address |-> address, date_added |-> strftime(t)]),
          msg |-> <<"Contact added successfully!", name>>]

\* edit_contact assigning the email whether or not one was given
edit_details_overwrites(details, phone_number, email, address) ==
    LET d1 == IF Truthy(phone_number) THEN Put(details, "phone", phone_number)
              ELSE details
        d2 == Put(d1, "email", IF Truthy(email) THEN email ELSE <<>>)
        d3 == IF Truthy(address) THEN Put(d2, "address", address) ELSE d2
    IN  d3

\* edit_contact building the details anew from phone, email and address
edit_details_rebuilds(details, phone_number, email, address) ==
    [phone |-> IF Truthy(phone_number) THEN phone_number
               ELSE Get(details, "phone", <<>>),
     email |-> IF Truthy(email) THEN email ELSE Get(details, "email", <<>>),
     address |-> IF Truthy(address) THEN address
                 ELSE Get(details, "address", <<>>)]

\* the three conditional assignments of edit_contact
edit_details(details, phone_number, email, address) ==
    LET d1 == IF Truthy(phone_number) THEN Put(details, "phone", phone_number)
              ELSE details
        d2 == IF Truthy(email) THEN Put(d1, "email", email) ELSE d1
        d3 == IF Truthy(address) THEN Put(d2, "address", address) ELSE d2
    IN  d3

\* edit_contact assigning email and address before it validates the phone
edit_contact_late_check(cs, name, phone_number, email, address) ==
    LET key == contact_key(cs, name)
    IN  IF key = None
        THEN [ok |-> FALSE, contacts |-> cs,
              msg |-> <<"Contact not found!", name>>]
        ELSE IF Truthy(phone_number) /\ ~validate_phone(phone_number)
        THEN [ok |-> FALSE,
              contacts |-> SetItem(cs, key,
                              edit_details(Details(cs, key), None, email, address)),
              msg |-> <<"Invalid phone number format!", <<>> >>]
        ELSE [ok |-> TRUE,
              contacts |-> SetItem(cs, key,
                              edit_details(Details(cs, key),
                                           phone_number, email, address)),
              msg |-> <<"Contact updated successfully!", key>>]

\* edit_contact storing the details under the name it was called with
edit_contact_under_given_name(cs, name, phone_number, email, address) ==
    LET key == contact_key(cs, name)
    IN  IF key = None
        THEN [ok |-> FALSE, contacts |-> cs,
              msg |-> <<"Contact not found!", name>>]
        ELSE IF Truthy(phone_number) /\ ~validate_phone(phone_number)
        THEN [ok |-> FALSE, contacts |-> cs,
              msg |-> <<"Invalid phone number format!", <<>> >>]
        ELSE [ok |-> TRUE,
              contacts |-> SetItem(cs, name,
                              edit_details(Details(cs, key),
                                           phone_number, email, address)),
              msg |-> <<"Contact updated successfully!", key>>]

\* edit_contact, up to the call of save_contacts
edit_contact(cs, name, phone_number, email, address) ==
    LET key == contact_key(cs, name)
    IN  IF key = None
        THEN [ok |-> FALSE, contacts |-> cs,
              msg |-> <<"Contact not found!", name>>]
        ELSE IF Truthy(phone_number) /\ ~validate_phone(phone_number)
        THEN [ok |-> FALSE, contacts |-> cs,
              msg |-> <<"Invalid phone number format!", <<>> >>]
        ELSE [ok |-> TRUE,
              contacts |-> SetItem(cs, key,
                              edit_details(Details(cs, key),
                                           phone_number, email, address)),
              msg |-> <<"Contact updated successfully!", key>>]

\* delete_contact going on to save_contacts when the name is not found
delete_contact_saves(cs, name) ==
    LET key == contact_key(cs, name)
    IN  IF key = None
        THEN [ok |-> TRUE, contacts |-> cs,
              msg |-> <<"Contact deleted successfully!", name>>]
        ELSE [ok |-> TRUE, contacts |-> DelItem(cs, key),
              msg |-> <<"Contact deleted successfully!", key>>]

\* delete_contact, up to the call of save_contacts
delete_contact(cs, name) ==
    LET key == contact_key(cs, name)
    IN  IF key = None
        THEN [ok |-> FALSE, contacts |-> cs,
              msg |-> <<"Contact not found!", name>>]
        ELSE [ok |-> TRUE, contacts |-> DelItem(cs, key),
              msg |-> <<"Contact deleted successfully!", key>>]

\* the condition without the phone
search_match_no_phone(query, name, details) ==
    \/ IsIn(lower(query), lower(name))
    \/ IsIn(lower(query), lower(Get(details, "email", <<>>)))

\* the condition with the phone compared like name and email
search_match_phone_ignoring_case(query, name, details) ==
    \/ IsIn(lower(query), lower(name))
    \/ IsIn(lower(query), lower(Get(details, "phone", <<>>)))
    \/ IsIn(lower(query), lower(Get(details, "email", <<>>)))

\* the condition of the loop body of search_contact
search_match(query, name, details) ==
    \/ IsIn(lower(query), lower(name))
    \/ IsIn(query, Get(details, "phone", <<>>))
    \/ IsIn(lower(query), lower(Get(details, "email", <<>>)))

\* search_contact: the loop over self.contacts.items()
RECURSIVE search_contact(_, _)
search_contact(cs, query) ==
    IF cs = <<>> THEN <<>>
    ELSE LET n == Len(cs)
             before == search_contact(SubSeq(cs, 1, n - 1), query)
         IN  IF search_match(query, cs[n].key, cs[n].details)
             THEN Append(before, <<cs[n].key, cs[n].details>>)
             ELSE before

NA == <<"N","/","A">>

\* display_contact: the value returned and the lines printed
display_contact(cs, name) ==
    LET key == contact_key(cs, name)
    IN  IF key = None
        THEN [ok |-> FALSE, lines |-> << <<"Contact not found!", name>> >>]
        ELSE [ok |-> TRUE,
              lines |-> << <<"Name: ", key>>,
                           <<"Phone: ", Get(Details(cs, key), "phone", NA)>>,
                           <<"Email: ", Get(Details(cs, key), "email", NA)>>,
                           <<"Address: ", Get(Details(cs, key), "address", NA)>>,
                           <<"Date Added: ", Get(Details(cs, key), "date_added", NA)>> >>]

\* the format specification "<width": pad with blanks on the right
ljust(s, width) ==
    IF Len(s) >= width THEN s ELSE s \o [i \in 1..(width - Len(s)) |-> " "]

NameWidth == 20
PhoneWidth == 15
EmailWidth == 25

\* list_all_contacts: the lines printed
list_all_contacts(cs) ==
    IF cs = <<>> THEN << <<"No contacts found!", <<>> >> >>
    ELSE << <<"Name Phone Email", <<>> >> >> \o
         [i \in 1..Len(cs) |->
            <<"", ljust(cs[i].key, NameWidth) \o <<" ">>
                  \o ljust(Get(cs[i].details, "phone", NA), PhoneWidth) \o <<" ">>
                  \o ljust(Get(cs[i].details, "email", NA), EmailWidth)>>]

(***************************************************************************)
(* The strings the user types and the files found at the first start       *)
(***************************************************************************)
Bob      == <<"B","o","b">>
bob      == <<"b","o","b">>
Al       == <<"A","l">>
AlTyped  == <<" ","A","l">>

PhoneA   == <<"(","5","5","5",")"," ","1","2","3","-","4","5","6","7">>
PhoneB   == <<"1","2","3","4","5","6","7","8","9","0","x">>
PhoneBad == <<"5","5","5","-","1","2","3","4">>

EmailA   == <<"5","5","5","@","X">>
AddressA == <<"R","d">>

Query555 == <<"5","5","5">>
QueryB   == <<"B">>
QueryX   == <<"X">>

Yes      == <<"y","e","s">>
YesTyped == <<" ","Y","E","S">>
No       == <<"n","o">>
JustY    == <<"y">>

\* A run's user types strings of one of these vocabularies: names in both
\* cases, every combination of fields under one name, or searches.
Vocabulary(names, phones, emails, addresses, queries) ==
    [names |-> names, phones |-> phones, emails |-> emails,
     addresses |-> addresses, queries |-> queries]

TypedNames  == Vocabulary({Bob, bob, AlTyped}, {<<>>, PhoneA}, {<<>>, EmailA},
                          {<<>>}, {QueryB})
TypedFields == Vocabulary({bob}, {<<>>, PhoneA, PhoneB, PhoneBad},
                          {<<>>, EmailA}, {<<>>, AddressA}, {<<>>})
TypedSearch == Vocabulary({Bob, AlTyped}, {PhoneA, PhoneB}, {<<>>, EmailA},
                          {<<>>}, {<<>>, Query555, QueryB, QueryX})

Vocabularies == {TypedNames, TypedFields, TypedSearch}

TypedConfirms  == {Yes, YesTyped, No, JustY}
TypedChoices   == {<<"1">>, <<"2">>, <<"3">>, <<"4">>, <<"5">>, <<"6">>,
                   <<"7">>, <<"8">>, <<>>}

Member(key, phone, email, address, t) ==
    <<key, << <<"phone", phone>>, <<"email", email>>,
              <<"address", address>>, <<"date_added", strftime(t)>> >> >>

\* a file with two names that differ only in letter case
FileTwoCases ==
    JsonFile(<< Member(Bob, PhoneA, <<>>, <<>>, 0),
                Member(bob, PhoneB, EmailA, <<>>, 0) >>)

\* a file with a phone that validate_phone rejects
FileBadPhone == JsonFile(<< Member(Al, PhoneBad, <<>>, AddressA, 0) >>)

\* a file whose JSON text repeats a member name
FileRepeated ==
    JsonFile(<< Member(Al, PhoneA, <<>>, <<>>, 0),
                Member(Al, PhoneB, EmailA, <<>>, 0) >>)

\* The files found at the first start.  Every JSON file here is an object of
\* objects with the four string fields; a file that parses to anything else
\* (a list, a number, a record with a non-string field) is not among them.
FirstFiles ==
    {NoFile, UndecodableFile, InvalidFile, FileTwoCases, FileBadPhone,
     FileRepeated}

(***************************************************************************)
(* The program: main() and the calls it makes                              *)
(***************************************************************************)
Call(op, name, phone, email, address, query) ==
    [op |-> op, name |-> name, phone |-> phone, email |-> email,
     address |-> address, query |-> query, confirm |-> <<>>]

\* the delete branch of main(): the name and the confirmation as typed
DeleteCall(op, name, confirm) ==
    [Call(op, name, <<>>, <<>>, <<>>, <<>>) EXCEPT !.confirm = confirm]

NoArgs(op) == Call(op, <<>>, <<>>, <<>>, <<>>, <<>>)

\* book = ContactBook(): __init__ runs load_contacts
Construct(f) ==
    /\ contacts = load_contacts(f)
    /\ file = f
    /\ pc = IF load_raises(f) THEN "crashed" ELSE "awaiting_choice"
    /\ lastCall = NoArgs("load_contacts")
    /\ ret = IF load_raises(f) THEN "raised" ELSE "None"
    /\ results = <<>>
    /\ out = load_notice(f)
    /\ saves = "none"

Init ==
    /\ typed \in Vocabularies
    /\ \E f \in FirstFiles : Construct(f)

\* save_contacts wrapped in a try/except that ignores the failed write
FinishIgnoringWriteFailure(r) ==
    /\ results' = <<>>
    /\ IF ~r.ok
       THEN /\ contacts' = r.contacts
            /\ file' = file
            /\ ret' = "False"
            /\ out' = << r.msg >>
            /\ saves' = "none"
            /\ pc' = pc
       ELSE /\ contacts' = r.contacts
            /\ \/ /\ file' = save_contacts(r.contacts)
                  /\ ret' = "True"
                  /\ out' = << <<"Contacts saved successfully!", <<>> >>, r.msg >>
                  /\ saves' = "ok"
                  /\ pc' = pc
               \/ /\ file' \in {file, InvalidFile}
                  /\ ret' = "True"
                  /\ out' = << r.msg >>
                  /\ saves' = "failed"
                  /\ pc' = pc

\* the end of add_contact, edit_contact and delete_contact: on a rejection
\* the method returns False at once; otherwise the dict is changed, then
\* save_contacts runs, then the method returns True.  When open() or the
\* write raises, nothing catches the exception and the process ends; the
\* file is then as it was (open failed) or truncated (the write failed).
Finish(r) ==
    /\ results' = <<>>
    /\ IF ~r.ok
       THEN /\ contacts' = r.contacts
            /\ file' = file
            /\ ret' = "False"
            /\ out' = << r.msg >>
            /\ saves' = "none"
            /\ pc' = pc
       ELSE /\ contacts' = r.contacts
            /\ \/ /\ file' = save_contacts(r.contacts)
                  /\ ret' = "True"
                  /\ out' = << <<"Contacts saved successfully!", <<>> >>, r.msg >>
                  /\ saves' = "ok"
                  /\ pc' = pc
               \/ /\ file' \in {file, InvalidFile}
                  /\ ret' = "raised"
                  /\ out' = <<>>
                  /\ saves' = "failed"
                  /\ pc' = "crashed"

\* choice "1"
ChoiceAdd ==
    /\ pc = "awaiting_choice"
    /\ \E n \in typed.names, p \in typed.phones, e \in typed.emails,
          a \in typed.addresses, t \in 0..MaxTime :
          LET name == strip(n)
              phone == strip(p)
              email == strip(e)
              address == strip(a)
          IN  /\ lastCall' = Call("add_contact", name, phone, email, address, <<>>)
              /\ Finish(add_contact(contacts, name, phone, email, address, t))
    /\ UNCHANGED typed

\* the lines main() prints for the results of a search
search_lines(query, found) ==
    IF found # <<>>
    THEN << <<"Found result(s): ", TwoDigits(Len(found))>> >> \o
         [i \in 1..(4 * Len(found)) |->
            LET e == found[((i - 1) \div 4) + 1]
                k == ((i - 1) % 4) + 1
            IN  IF k = 1 THEN <<"Name: ", e[1]>>
                ELSE IF k = 2 THEN <<"Phone: ", Get(e[2], "phone", NA)>>
                ELSE IF k = 3 THEN <<"Email: ", Get(e[2], "email", NA)>>
                ELSE <<"Address: ", Get(e[2], "address", NA)>>]
    ELSE << <<"No contacts found matching!", query>> >>

\* choice "2"
ChoiceSearch ==
    /\ pc = "awaiting_choice"
    /\ \E q \in typed.queries :
          LET query == strip(q)
          IN  /\ lastCall' = Call("search_contact", <<>>, <<>>, <<>>, <<>>, query)
              /\ results' = search_contact(contacts, query)
              /\ out' = search_lines(query, results')
    /\ ret' = "list"
    /\ saves' = "none"
    /\ UNCHANGED <<contacts, file, pc, typed>>

\* choice "3"
ChoiceEdit ==
    /\ pc = "awaiting_choice"
    /\ \E n \in typed.names, p \in typed.phones, e \in typed.emails,
          a \in typed.addresses :
          LET name == strip(n)
              phone == OrNone(strip(p))
              email == OrNone(strip(e))
              address == OrNone(strip(a))
          IN  /\ lastCall' = Call("edit_contact", name, phone, email, address, <<>>)
              /\ Finish(edit_contact(contacts, name, phone, email, address))
    /\ UNCHANGED typed

\* choice "4" with the test written as: confirm in "yes"
ChoiceDeleteOnPartOfYes ==
    /\ pc = "awaiting_choice"
    /\ \E n \in typed.names, c \in TypedConfirms :
          LET name == strip(n)
              confirm == lower(strip(c))
          IN  IF IsIn(confirm, Yes)
              THEN /\ lastCall' = DeleteCall("delete_contact", name, c)
                   /\ Finish(delete_contact(contacts, name))
              ELSE /\ lastCall' = DeleteCall("delete_cancelled", name, c)
                   /\ ret' = "None"
                   /\ results' = <<>>
                   /\ out' = << <<"Deletion cancelled.", <<>> >> >>
                   /\ saves' = "none"
                   /\ UNCHANGED <<contacts, file, pc>>
    /\ UNCHANGED typed

\* choice "4"
ChoiceDelete ==
    /\ pc = "awaiting_choice"
    /\ \E n \in typed.names, c \in TypedConfirms :
          LET name == strip(n)
              confirm == lower(strip(c))
          IN  IF confirm = Yes
              THEN /\ lastCall' = DeleteCall("delete_contact", name, c)
                   /\ Finish(delete_contact(contacts, name))
              ELSE /\ lastCall' = DeleteCall("delete_cancelled", name, c)
                   /\ ret' = "None"
                   /\ results' = <<>>
                   /\ out' = << <<"Deletion cancelled.", <<>> >> >>
                   /\ saves' = "none"
                   /\ UNCHANGED <<contacts, file, pc>>
    /\ UNCHANGED typed

\* choice "5"
ChoiceDisplay ==
    /\ pc = "awaiting_choice"
    /\ \E n \in typed.names :
          LET name == strip(n)
              r == display_contact(contacts, name)
          IN  /\ lastCall' = Call("display_contact", name, <<>>, <<>>, <<>>, <<>>)
              /\ ret' = IF r.ok THEN "True" ELSE "False"
              /\ out' = r.lines
    /\ results' = <<>>
    /\ saves' = "none"
    /\ UNCHANGED <<contacts, file, pc, typed>>

\* choice "6" with a call of save_contacts after the listing
ChoiceListThenSaves ==
    /\ pc = "awaiting_choice"
    /\ lastCall' = NoArgs("list_all_contacts")
    /\ ret' = "None"
    /\ out' = list_all_contacts(contacts)
    /\ results' = <<>>
    /\ file' = save_contacts(contacts)
    /\ saves' = "ok"
    /\ UNCHANGED <<contacts, pc, typed>>

\* choice "6"
ChoiceList ==
    /\ pc = "awaiting_choice"
    /\ lastCall' = NoArgs("list_all_contacts")
    /\ ret' = "None"
    /\ out' = list_all_contacts(contacts)
    /\ results' = <<>>
    /\ saves' = "none"
    /\ UNCHANGED <<contacts, file, pc, typed>>

\* choice "7"
ChoiceExit ==
    /\ pc = "awaiting_choice"
    /\ pc' = "stopped"
    /\ lastCall' = NoArgs("exit")
    /\ ret' = "None"
    /\ out' = << <<"Thank you for using Contact Book! Goodbye!", <<>> >> >>
    /\ results' = <<>>
    /\ saves' = "none"
    /\ UNCHANGED <<contacts, file, typed>>

\* any other choice
ChoiceInvalid ==
    /\ pc = "awaiting_choice"
    /\ \E c \in TypedChoices :
          /\ strip(c) \notin {<<"1">>, <<"2">>, <<"3">>, <<"4">>, <<"5">>,
                              <<"6">>, <<"7">>}
          /\ lastCall' = Call("invalid_choice", <<>>, <<>>, <<>>, <<>>, strip(c))
    /\ ret' = "None"
    /\ out' = << <<"Invalid choice! Please try again.", <<>> >> >>
    /\ results' = <<>>
    /\ saves' = "none"
    /\ UNCHANGED <<contacts, file, pc, typed>>

\* the program is started again after it has ended: the new process builds
\* its ContactBook from the file the old one left
Restart ==
    /\ pc \in {"stopped", "crashed"}
    /\ contacts' = load_contacts(file)
    /\ pc' = IF load_raises(file) THEN "crashed" ELSE "awaiting_choice"
    /\ lastCall' = NoArgs("load_contacts")
    /\ ret' = IF load_raises(file) THEN "raised" ELSE "None"
    /\ results' = <<>>
    /\ out' = load_notice(file)
    /\ saves' = "none"
    /\ UNCHANGED <<file, typed>>

Next ==
    \/ ChoiceAdd
    \/ ChoiceSearch
    \/ ChoiceEdit
    \/ ChoiceDelete
    \/ ChoiceDisplay
    \/ ChoiceList
    \/ ChoiceExit
    \/ ChoiceInvalid
    \/ Restart

Spec == Init /\ [][Next]_vars

(***************************************************************************)
(* validate_phone on its own: a ContactBook with two contacts is built, and *)
(* the static method is called once with a phone string made of blocks of  *)
(* digits, separators and a letter, or with one of the phones above.       *)
(***************************************************************************)
Blocks == { <<"5","5","5">>, <<"1","2","3","4">>, <<"-">>, <<" ">>, <<"(">>,
            <<")">>, <<"x">> }

RECURSIVE Concat(_)
Concat(ss) == IF ss = <<>> THEN <<>> ELSE Head(ss) \o Concat(Tail(ss))

PhoneStrings ==
    {PhoneA, PhoneB, PhoneBad} \cup
    UNION { {Concat(bs) : bs \in [1..n -> Blocks]} : n \in 0..MaxBlocks }

InitPhone ==
    /\ typed = TypedFields
    /\ contacts = load_contacts(FileTwoCases)
    /\ file = FileTwoCases
    /\ pc = "awaiting_choice"
    /\ \E p \in PhoneStrings :
          lastCall = Call("validate_phone", <<>>, p, <<>>, <<>>, <<>>)
    /\ ret = "None"
    /\ results = <<>>
    /\ out = <<>>
    /\ saves = "none"

\* ContactBook.validate_phone(phone_number) returns
CallValidatePhone ==
    /\ lastCall.op = "validate_phone"
    /\ ret = "None"
    /\ ret' = IF validate_phone(lastCall.phone) THEN "True" ELSE "False"
    /\ UNCHANGED <<contacts, file, pc, lastCall, results, out, saves, typed>>

NextPhone == CallValidatePhone

SpecPhone == InitPhone /\ [][NextPhone]_vars

\* the runs that start from an empty store: no file, or a file that does not
\* parse
InitEmpty ==
    /\ typed \in Vocabularies
    /\ \E f \in {NoFile, InvalidFile} : Construct(f)

SpecEmpty == InitEmpty /\ [][Next]_vars

(***************************************************************************)
(* Properties                                                              *)
(***************************************************************************)
Mutators == {"add_contact", "edit_contact", "delete_contact"}

SameIgnoringCase(a, b) == lower(a) = lower(b)

HasKeyIgnoringCase(cs, name) ==
    \E i \in 1..Len(cs) : SameIgnoringCase(cs[i].key, name)

\* the first position, in dict order, whose key equals the name ignoring case
FirstMatch(cs, name) ==
    CHOOSE i \in 1..Len(cs) :
        /\ SameIgnoringCase(cs[i].key, name)
        /\ \A j \in 1..(i - 1) : ~SameIgnoringCase(cs[j].key, name)

\* the value the JSON object `members` gives the field, None without it
MemberValue(members, field) ==
    IF \E j \in 1..Len(members) : members[j][1] = field
    THEN members[CHOOSE j \in 1..Len(members) :
                    /\ members[j][1] = field
                    /\ \A k \in (j + 1)..Len(members) : members[k][1] # field][2]
    ELSE None

\* the file holds exactly the mapping cs: the same keys in the same order and
\* the same four field values for each
FileHolds(f, cs) ==
    /\ f.exists
    /\ f.parses
    /\ Len(f.text) = Len(cs)
    /\ \A i \in 1..Len(cs) :
          /\ f.text[i][1] = cs[i].key
          /\ \A field \in {"phone", "email", "address", "date_added"} :
                MemberValue(f.text[i][2], field) = Get(cs[i].details, field, None)

\* C1: in every reachable state of the store, no two keys of the mapping are
\* equal under case-insensitive comparison.
NoTwoKeysEqualIgnoringCase ==
    \A i, j \in 1..Len(contacts) :
        i # j => ~SameIgnoringCase(contacts[i].key, contacts[j].key)

\* C2: whenever add, edit or delete has returned success, the call itself has
\* run save_contacts to completion and the backing file holds exactly the
\* in-memory mapping.
SuccessMeansPersisted ==
    (lastCall.op \in Mutators /\ ret = "True") =>
        /\ saves = "ok"
        /\ FileHolds(file, contacts)

SuccessfulMutationOfTwoContacts ==
    /\ lastCall.op \in Mutators
    /\ ret = "True"
    /\ Len(contacts) >= 2
    /\ \E i \in 1..Len(contacts) : contacts[i].details.email # <<>>

\* C3: after a successful add(n1, ...), a following add(n2, ...) with a name
\* that differs from n1 only in letter case and a valid phone returns failure
\* (already exists), does not persist, and leaves mapping and file unchanged;
\* the key stays n1 as first entered.
SecondAddInOtherCaseFails ==
    [][ ( /\ lastCall.op = "add_contact"
          /\ ret = "True"
          /\ validate_phone(lastCall.phone)
          /\ lastCall'.op = "add_contact"
          /\ validate_phone(lastCall'.phone)
          /\ SameIgnoringCase(lastCall'.name, lastCall.name) )
        => ( /\ ret' = "False"
             /\ out' = << <<"Contact already exists!", lastCall'.name>> >>
             /\ saves' = "none"
             /\ contacts' = contacts
             /\ file' = file
             /\ \E i \in 1..Len(contacts') : contacts'[i].key = lastCall.name ) ]_vars

AddInOtherCaseRejected ==
    /\ lastCall.op = "add_contact"
    /\ ret = "False"
    /\ validate_phone(lastCall.phone)
    /\ HasKeyIgnoringCase(contacts, lastCall.name)
    /\ \A i \in 1..Len(contacts) : contacts[i].key # lastCall.name

\* C4: an edit of an existing contact with a non-empty phone that fails
\* validate_phone returns failure whatever email and address come with it;
\* the mapping (so phone, email and address of the contact) and the file stay
\* as they were and save_contacts does not run.
EditWithInvalidPhoneChangesNothing ==
    [][ ( /\ lastCall'.op = "edit_contact"
          /\ HasKeyIgnoringCase(contacts, lastCall'.name)
          /\ Truthy(lastCall'.phone)
          /\ ~validate_phone(lastCall'.phone) )
        => ( /\ ret' = "False"
             /\ contacts' = contacts
             /\ file' = file
             /\ saves' = "none" ) ]_vars

EditWithInvalidPhoneAndOtherFields ==
    /\ lastCall.op = "edit_contact"
    /\ HasKeyIgnoringCase(contacts, lastCall.name)
    /\ Truthy(lastCall.phone)
    /\ ~validate_phone(lastCall.phone)
    /\ Truthy(lastCall.email)
    /\ Truthy(lastCall.address)
    /\ contacts[FirstMatch(contacts, lastCall.name)].details.email # lastCall.email

\* C5: a successful edit replaces, in the contact the name resolves to, exactly
\* those of phone, email and address whose argument is non-empty; the other
\* fields of that contact, every other contact and the keys stay as they
\* were, and the file holds the updated mapping.
EditedField(before, after, field, arg) ==
    IF Truthy(arg)
    THEN Get(after, field, None) = arg
    ELSE Get(after, field, None) = Get(before, field, None)

EditChangesOnlySuppliedFields ==
    [][ ( /\ lastCall'.op = "edit_contact"
          /\ ret' = "True" )
        => ( /\ HasKeyIgnoringCase(contacts, lastCall'.name)
             /\ Len(contacts') = Len(contacts)
             /\ LET i == FirstMatch(contacts, lastCall'.name)
                IN  /\ \A j \in 1..Len(contacts) :
                          /\ contacts'[j].key = contacts[j].key
                          /\ j # i => contacts'[j] = contacts[j]
                    /\ EditedField(contacts[i].details, contacts'[i].details,
                                   "phone", lastCall'.phone)
                    /\ EditedField(contacts[i].details, contacts'[i].details,
                                   "email", lastCall'.email)
                    /\ EditedField(contacts[i].details, contacts'[i].details,
                                   "address", lastCall'.address)
                    /\ EditedField(contacts[i].details, contacts'[i].details,
                                   "date_added", None)
             /\ FileHolds(file', contacts') ) ]_vars

EditOfEmailOnlyInOtherCase ==
    /\ lastCall.op = "edit_contact"
    /\ ret = "True"
    /\ lastCall.phone = None
    /\ Truthy(lastCall.email)
    /\ lastCall.address = None
    /\ Len(contacts) >= 2
    /\ LET i == FirstMatch(contacts, lastCall.name)
       IN  /\ contacts[i].key # lastCall.name
           /\ contacts[i].details.email = lastCall.email
           /\ contacts[i].details.address # <<>>

\* C6: delete(name), and likewise edit(name, ...), on a store with no key equal
\* to name ignoring case returns failure, leaves the mapping and the file
\* unchanged and does not run save_contacts.
NotFoundChangesNothing ==
    [][ ( /\ lastCall'.op \in {"delete_contact", "edit_contact"}
          /\ ~HasKeyIgnoringCase(contacts, lastCall'.name) )
        => ( /\ ret' = "False"
             /\ out' = << <<"Contact not found!", lastCall'.name>> >>
             /\ contacts' = contacts
             /\ file' = file
             /\ saves' = "none" ) ]_vars

DeleteOfMissingName ==
    /\ lastCall.op = "delete_contact"
    /\ ~HasKeyIgnoringCase(contacts, lastCall.name)
    /\ ret = "False"
    /\ contacts # <<>>
    /\ file.parses

\* C7: started from an empty store, every stored phone (in memory and in the
\* file) passes validate_phone; an add with a phone that fails it has returned
\* failure without running save_contacts.
StoredPhonesAreValid ==
    /\ \A i \in 1..Len(contacts) : validate_phone(contacts[i].details.phone)
    /\ \A i \in 1..Len(file.text) :
          validate_phone(MemberValue(file.text[i][2], "phone"))
    /\ (lastCall.op = "add_contact" /\ ~validate_phone(lastCall.phone)) =>
          (ret = "False" /\ saves = "none")

InvalidPhoneRefused ==
    /\ lastCall.op \in {"add_contact", "edit_contact"}
    /\ Truthy(lastCall.phone)
    /\ ~validate_phone(lastCall.phone)
    /\ ret = "False"
    /\ contacts # <<>>
    /\ \/ lastCall.op = "edit_contact"
       \/ ~HasKeyIgnoringCase(contacts, lastCall.name)

\* C8: a contact's date_added is the same in every state from the add that
\* created it to the delete that removes it: no step changes the date_added
\* of a key that the mapping holds before and after the step.
DateAddedNeverChanges ==
    [][ \A i \in 1..Len(contacts) : \A j \in 1..Len(contacts') :
          contacts'[j].key = contacts[i].key =>
              Get(contacts'[j].details, "date_added", None)
                  = Get(contacts[i].details, "date_added", None) ]_vars

EditedContactAddedLater ==
    /\ lastCall.op = "edit_contact"
    /\ ret = "True"
    /\ Truthy(lastCall.phone)
    /\ Len(contacts) >= 2
    /\ LET i == FirstMatch(contacts, lastCall.name)
       IN  contacts[i].details.date_added = strftime(MaxTime)
    /\ \E k \in 1..Len(contacts) : contacts[k].details.date_added = strftime(0)

\* what a search result says of the contact at position i
Item(cs, i) == <<cs[i].key, cs[i].details>>

Returned(found, cs, i) == \E k \in 1..Len(found) : found[k] = Item(cs, i)

PhoneContains(cs, i, q) == IsIn(q, Get(cs[i].details, "phone", <<>>))

NameOrEmailContains(cs, i, q) ==
    \/ IsIn(lower(q), lower(cs[i].key))
    \/ IsIn(lower(q), lower(Get(cs[i].details, "email", <<>>)))

\* C9, as stated: search(q) returns every contact whose phone contains q and
\* no contact whose phone lacks q, whatever its name and email contain.
SearchReturnsExactlyPhoneMatches ==
    lastCall.op = "search_contact" =>
        \A i \in 1..Len(contacts) :
            Returned(results, contacts, i)
                <=> PhoneContains(contacts, i, lastCall.query)

\* C9, amended: search(q) returns every contact whose phone contains q; a
\* contact whose phone lacks q is returned exactly when q, ignoring case, is a
\* substring of its name or of its email.
SearchReturnsPhoneMatchesAndNameOrEmailMatches ==
    lastCall.op = "search_contact" =>
        \A i \in 1..Len(contacts) :
            /\ PhoneContains(contacts, i, lastCall.query)
                  => Returned(results, contacts, i)
            /\ ~PhoneContains(contacts, i, lastCall.query)
                  => ( Returned(results, contacts, i)
                          <=> NameOrEmailContains(contacts, i, lastCall.query) )

SearchFor555FindsPhoneAndEmail ==
    /\ lastCall.op = "search_contact"
    /\ lastCall.query = Query555
    /\ \E i \in 1..Len(contacts) :
          /\ PhoneContains(contacts, i, Query555)
          /\ Returned(results, contacts, i)
    /\ \E i \in 1..Len(contacts) :
          /\ ~PhoneContains(contacts, i, Query555)
          /\ Returned(results, contacts, i)

\* C10: search(q) returns exactly the (name, details) pairs of the contacts for
\* which lowercase(q) is a substring of the lowercase name, or q is a substring
\* of the phone, or lowercase(q) is a substring of the lowercase email, in the
\* order of the mapping and each once; with no such contact it returns the
\* empty list.
Matching(cs, q) ==
    {i \in 1..Len(cs) : PhoneContains(cs, i, q) \/ NameOrEmailContains(cs, i, q)}

\* the k-th smallest member of a set of positions
Nth(positions, k) ==
    CHOOSE i \in positions : Cardinality({j \in positions : j < i}) = k - 1

SearchReturnsTheMatchesInOrder ==
    lastCall.op = "search_contact" =>
        /\ ret = "list"
        /\ Len(results) = Cardinality(Matching(contacts, lastCall.query))
        /\ \A k \in 1..Len(results) :
              results[k] = Item(contacts, Nth(Matching(contacts, lastCall.query), k))

SearchFindsSomeButNotAll ==
    /\ lastCall.op = "search_contact"
    /\ lastCall.query = QueryX
    /\ Len(contacts) >= 2
    /\ Len(results) = 1
    /\ \E i \in 1..Len(contacts) :
          /\ ~Returned(results, contacts, i)
          /\ IsIn(lower(QueryX), lower(contacts[i].details.phone))

\* C11: display(n) succeeds exactly when some key equals n ignoring case, and
\* then prints the name and the four fields stored under such a key (the
\* first one in the order of the mapping); otherwise it fails and prints only
\* the not-found notice.  It leaves mapping and file as they were.
DisplayLooksUpIgnoringCase ==
    [][ lastCall'.op = "display_contact" =>
          /\ contacts' = contacts
          /\ file' = file
          /\ IF HasKeyIgnoringCase(contacts, lastCall'.name)
             THEN LET e == contacts[FirstMatch(contacts, lastCall'.name)]
                  IN  /\ ret' = "True"
                      /\ out' = << <<"Name: ", e.key>>,
                                   <<"Phone: ", e.details.phone>>,
                                   <<"Email: ", e.details.email>>,
                                   <<"Address: ", e.details.address>>,
                                   <<"Date Added: ", e.details.date_added>> >>
             ELSE /\ ret' = "False"
                  /\ out' = << <<"Contact not found!", lastCall'.name>> >> ]_vars

DisplayInOtherCaseShowsRecord ==
    /\ lastCall.op = "display_contact"
    /\ ret = "True"
    /\ HasKeyIgnoringCase(contacts, lastCall.name)
    /\ \A i \in 1..Len(contacts) : contacts[i].key # lastCall.name
    /\ out[1] = <<"Name: ", contacts[FirstMatch(contacts, lastCall.name)].key>>
    /\ out[3][2] # <<>>

\* C12: persisting the store and loading a new store from that file gives an
\* equal mapping: the same keys, in their case and order, and the same phone,
\* email, address and date_added for each.
Reloaded == load_contacts(save_contacts(contacts))

SaveThenLoadGivesTheSameMapping ==
    /\ Len(Reloaded) = Len(contacts)
    /\ \A i \in 1..Len(contacts) :
          /\ Reloaded[i].key = contacts[i].key
          /\ DOMAIN Reloaded[i].details = DOMAIN contacts[i].details
          /\ \A field \in {"phone", "email", "address", "date_added"} :
                Get(Reloaded[i].details, field, None)
                    = Get(contacts[i].details, field, None)

StoreOfTwoWithEmptyAndFilledFields ==
    /\ lastCall.op \in Mutators
    /\ ret = "True"
    /\ Len(contacts) >= 2
    /\ \E i \in 1..Len(contacts) :
          /\ contacts[i].details.email # <<>>
          /\ contacts[i].details.address = <<>>
    /\ load_contacts(file) = contacts

\* C13: loading never fails the process: with the file absent, or present
\* with content that is no record of records, the construction of the store
\* completes with an empty mapping, the notice is printed in the unparsable
\* case, the session is at the menu, and the file is as it was.
LoadingNeverFails ==
    (lastCall.op = "load_contacts" /\ ~(file.exists /\ file.parses)) =>
        /\ pc = "awaiting_choice"
        /\ ret = "None"
        /\ contacts = <<>>
        /\ file.exists =>
              out = << <<"Error reading contacts file. Starting with empty contact list.", <<>> >> >>

\* C14: a failure of the write in save_contacts during add, edit or delete is
\* not swallowed: the call does not return (neither True nor False), the
\* exception reaches its caller, and neither the saved notice nor the
\* operation's success notice is printed.
SuccessNotices ==
    {"Contacts saved successfully!", "Contact added successfully!",
     "Contact updated successfully!", "Contact deleted successfully!"}

WriteFailurePropagates ==
    saves = "failed" =>
        /\ lastCall.op \in Mutators
        /\ ret = "raised"
        /\ \A i \in 1..Len(out) : out[i][1] \notin SuccessNotices

WriteFailedDuringEdit ==
    /\ saves = "failed"
    /\ lastCall.op = "edit_contact"
    /\ Truthy(lastCall.email)
    /\ ~FileHolds(file, contacts)

\* C15: the menu loop leaves awaiting_choice only for stopped and only on the
\* exit choice: after an unrecognized choice and after every failure of a store
\* operation (already exists, invalid phone, not found, failed write) the
\* session is at the menu again.
SessionEndsOnlyOnExit ==
    /\ pc = "stopped" => lastCall.op = "exit"
    /\ lastCall.op \notin {"exit", "load_contacts"} => pc = "awaiting_choice"

\* C16: in the delete branch of the menu, delete_contact is called exactly when
\* the confirmation, trimmed and lowercased, equals "yes"; with any other
\* confirmation the iteration leaves mapping and file as they were and does
\* not run save_contacts.
Confirmed(c) == lower(strip(c)) = <<"y","e","s">>

DeleteOnlyWhenConfirmed ==
    [][ lastCall'.op \in {"delete_contact", "delete_cancelled"} =>
          /\ lastCall'.op = "delete_contact" <=> Confirmed(lastCall'.confirm)
          /\ ~Confirmed(lastCall'.confirm) =>
                /\ contacts' = contacts
                /\ file' = file
                /\ saves' = "none"
                /\ pc' = pc ]_vars

DeletionCancelledForExistingContact ==
    /\ lastCall.op = "delete_cancelled"
    /\ lastCall.confirm = JustY
    /\ HasKeyIgnoringCase(contacts, lastCall.name)
    /\ file.parses

DeletionConfirmedInCapitals ==
    /\ lastCall.op = "delete_contact"
    /\ lastCall.confirm = YesTyped
    /\ ret = "True"

\* C17: validate_phone(p) is true exactly when at least 10 decimal digits remain
\* in p after every "-", " ", "(" and ")" is removed; the call changes neither
\* the store nor the file.
DecimalDigitsLeft(p) ==
    LET kept == SelectSeq(p, LAMBDA c : c \notin {"-", " ", "(", ")"})
    IN  Cardinality({i \in 1..Len(kept) :
            kept[i] \in {"0", "1", "2", "3", "4", "5", "6", "7", "8", "9"}})

ValidatePhoneCountsDigits ==
    /\ contacts = load_contacts(FileTwoCases)
    /\ file = FileTwoCases
    /\ saves = "none"
    /\ (lastCall.op = "validate_phone" /\ ret # "None") =>
          (ret = "True" <=> DecimalDigitsLeft(lastCall.phone) >= 10)

TenDigitsAmongSeparatorsAccepted ==
    /\ lastCall.op = "validate_phone"
    /\ ret = "True"
    /\ DecimalDigitsLeft(lastCall.phone) = 10
    /\ Len(lastCall.phone) = 14

NineDigitsAndALetterRefused ==
    /\ lastCall.op = "validate_phone"
    /\ ret = "False"
    /\ DecimalDigitsLeft(lastCall.phone) = 9
    /\ Len(lastCall.phone) = 10

\* the names of the mapping, in dict order
KeySequence(cs) == [i \in 1..Len(cs) |-> cs[i].key]

Without(s, i) == SubSeq(s, 1, i - 1) \o SubSeq(s, i + 1, Len(s))

StoreCalls ==
    {"add_contact", "edit_contact", "delete_contact", "search_contact",
     "display_contact", "list_all_contacts"}

\* what a call may do to the key sequence when its outcome is one of `outcomes`
KeysStep(outcomes) ==
    LET old == KeySequence(contacts)
        new == KeySequence(contacts')
        call == lastCall'
    IN  call.op \in StoreCalls =>
          /\ \/ new = old
             \/ /\ call.op = "add_contact"
                /\ ret' \in outcomes
                /\ new = Append(old, call.name)
             \/ /\ call.op = "delete_contact"
                /\ ret' \in outcomes
                /\ HasKeyIgnoringCase(contacts, call.name)
                /\ new = Without(old, FirstMatch(contacts, call.name))
          /\ (call.op = "add_contact" /\ ret' = "True") =>
                new = Append(old, call.name)
          /\ (call.op = "delete_contact" /\ ret' = "True") =>
                Len(new) = Len(old) - 1
          /\ call.op = "edit_contact" => new = old
          /\ (call.op = "list_all_contacts" /\ old # <<>>) =>
                /\ Len(out') = Len(old) + 1
                /\ \A i \in 1..Len(old) :
                      SubSeq(out'[i + 1][2], 1, Len(old[i])) = old[i]
          /\ call.op = "search_contact" =>
                [k \in 1..Len(results') |-> results'[k][1]] =
                    SelectSeq(old, LAMBDA n :
                        \E k \in 1..Len(results') : results'[k][1] = n)

\* C18 as stated: the key sequence changes only by an add that returns success,
\* which appends its name as given, and by a delete that returns success, which
\* removes the one key it resolved; an edit leaves the keys alone; list and
\* search go through the keys in this order.
KeysChangeOnlyOnReturnedSuccess == [][KeysStep({"True"})]_vars

\* C18: the key sequence changes only by an add that passed its checks, which
\* appends its name as given, and by a delete that resolved its name, which
\* removes the one key it resolved, whether the write that follows succeeds or
\* raises; an edit leaves the keys alone; list and search go through the keys
\* in this order.
KeysChangeOnlyByAddAndDelete == [][KeysStep({"True", "raised"})]_vars

AddThatRaisedAppendedItsName ==
    /\ lastCall.op = "add_contact"
    /\ ret = "raised"
    /\ Len(contacts) >= 2
    /\ contacts[Len(contacts)].key = lastCall.name
    /\ ~(file.parses /\ \E i \in 1..Len(file.text) :
            file.text[i][1] = lastCall.name)

\* C19: a call of search_contact, display_contact or list_all_contacts leaves
\* the mapping and the file as they were and does not call save_contacts,
\* whether or not it finds anything.
Queries == {"search_contact", "display_contact", "list_all_contacts"}

QueriesAreReadOnly ==
    [][lastCall'.op \in Queries =>
          /\ contacts' = contacts
          /\ file' = file
          /\ saves' = "none"
          /\ pc' = pc]_vars

SearchFindingNothingInStoreOfTwo ==
    /\ lastCall.op = "search_contact"
    /\ results = <<>>
    /\ Len(contacts) = 2
    /\ FileHolds(file, contacts)
    /\ saves = "none"

ListingOfStoreWithoutFile ==
    /\ lastCall.op = "list_all_contacts"
    /\ contacts = <<>>
    /\ ~file.exists
    /\ saves = "none"

====
